---- MODULE Spec2Model ----
(***************************************************************************)
(* MigraScope: the rule-table analyzer (src/src/analyzer.ts), the serving  *)
(* loop that calls it (src/src/index.ts) and the multi-factor scorer       *)
(* (src/unnamed/part_000).                                                 *)
(*                                                                         *)
(* Script text is a TLA+ string and is read character by character; the    *)
(* regular expressions of the rule table are matched by a backtracking     *)
(* matcher over that text.  Durations are kept exactly, as a number of     *)
(* hundredths of a millisecond (R = 0.01 ms per row is 1 such unit).       *)
(***************************************************************************)
EXTENDS Integers, Sequences, FiniteSets, TLC

VARIABLES
    queue,        \* requests still to be served: <<[sql, tableMeta], ...>>
    responses,    \* one AnalysisReport per served request, in order
    served,       \* the requests served so far, in order
    pc,           \* "idle" | "loop": position inside analyze
    metaMap,      \* analyze: the call's metadata map
    stmts,        \* analyze: the statements still to be matched
    operations,   \* analyze: the RiskItems pushed so far
    exitCodes,    \* the exit status of the CLI run on each served request
    scoreQueue,   \* scorer: <<[migration, metadata], ...>> still to be scored
    scored,       \* scorer: the inputs scored so far, in order
    riskReports   \* scorer: one RiskReport per scored input, in order

vars == <<queue, responses, served, pc, metaMap, stmts, operations, exitCodes,
          scoreQueue, scored, riskReports>>

analyzerVars == <<queue, responses, served, pc, metaMap, stmts, operations, exitCodes>>
scorerVars == <<scoreQueue, scored, riskReports>>

(***************************************************************************)
(* Characters and strings.                                                 *)
(***************************************************************************)
LowerChars == "abcdefghijklmnopqrstuvwxyz"
UpperChars == "ABCDEFGHIJKLMNOPQRSTUVWXYZ"
DigitChars == "0123456789_"

Ch(s, i) == IF i >= 1 /\ i <= Len(s) THEN SubSeq(s, i, i) ELSE ""

CharSet(s) == {Ch(s, i) : i \in 1..Len(s)}

\* \w of a JavaScript RegExp without the u flag: [A-Za-z0-9_]
WordChars == CharSet(LowerChars) \cup CharSet(UpperChars) \cup CharSet(DigitChars)

\* \s, and the characters String.prototype.trim removes
SpaceChars == {" ", "\n", "\t", "\r"}

LowerOf == [c \in CharSet(UpperChars) |->
              Ch(LowerChars, CHOOSE i \in 1..26 : Ch(UpperChars, i) = c)]

toLowerChar(c) == IF c \in DOMAIN LowerOf THEN LowerOf[c] ELSE c

\* String.prototype.toLowerCase, by halves
RECURSIVE toLowerCase(_)
toLowerCase(s) ==
    IF Len(s) <= 1 THEN toLowerChar(s)
    ELSE LET h == Len(s) \div 2
         IN toLowerCase(SubSeq(s, 1, h)) \o toLowerCase(SubSeq(s, h + 1, Len(s)))

UpperOf == [c \in CharSet(LowerChars) |->
              Ch(UpperChars, CHOOSE i \in 1..26 : Ch(LowerChars, i) = c)]

toUpperChar(c) == IF c \in DOMAIN UpperOf THEN UpperOf[c] ELSE c

\* String.prototype.toUpperCase, by halves
RECURSIVE toUpperCase(_)
toUpperCase(s) ==
    IF Len(s) <= 1 THEN toUpperChar(s)
    ELSE LET h == Len(s) \div 2
         IN toUpperCase(SubSeq(s, 1, h)) \o toUpperCase(SubSeq(s, h + 1, Len(s)))

\* the position after the longest run of characters of cs that starts at i
RECURSIVE RunEnd(_, _, _)
RunEnd(s, i, cs) == IF Ch(s, i) \in cs THEN RunEnd(s, i + 1, cs) ELSE i

\* String.prototype.trim
TrimLeft(s) == SubSeq(s, RunEnd(s, 1, SpaceChars), Len(s))

RECURSIVE LastNonSpace(_, _)
LastNonSpace(s, i) ==
    IF i >= 1 /\ Ch(s, i) \in SpaceChars THEN LastNonSpace(s, i - 1) ELSE i

trim(s) == LET l == TrimLeft(s) IN SubSeq(l, 1, LastNonSpace(l, Len(l)))

\* String.prototype.split with a one-character separator: the pieces between
\* consecutive separators, the ends of the text counting as separators
split(s, sep) ==
    LET seps == {i \in 1..Len(s) : Ch(s, i) = sep}
        n == Cardinality(seps)
        pos(k) == IF k = 0 THEN 0
                  ELSE IF k = n + 1 THEN Len(s) + 1
                  ELSE CHOOSE p \in seps : Cardinality({q \in seps : q < p}) = k - 1
    IN [k \in 1..(n + 1) |-> SubSeq(s, pos(k - 1) + 1, pos(k) - 1)]

RECURSIVE FilterNonEmpty(_)
FilterNonEmpty(ss) ==
    IF ss = <<>> THEN <<>>
    ELSE (IF Head(ss) = "" THEN <<>> ELSE <<Head(ss)>>) \o FilterNonEmpty(Tail(ss))

\* sql.split(";").map((s) => s.trim()).filter(Boolean)
SplitStatements(sql) ==
    LET parts == split(sql, ";")
    IN FilterNonEmpty([k \in 1..Len(parts) |-> trim(parts[k])])

(***************************************************************************)
(* Regular expressions.  A pattern is a sequence of elements:              *)
(*   Lit(t)       the literal text t                                       *)
(*   Run(cs, c)   one or more characters of cs, greedy ( \s+ , \w+ );      *)
(*                c says whether the run is capture group 1                *)
(*   Opt(p)       (?:p)? , greedy                                          *)
(*   NotAhead(t)  (?!t)                                                    *)
(* MatchSeq backtracks as RegExp.prototype.exec does: a greedy element     *)
(* gives characters back when the rest of the pattern fails.               *)
(***************************************************************************)
Lit(t) == [kind |-> "lit", text |-> t]
Run(cs, c) == [kind |-> "run", cs |-> cs, capture |-> c]
Opt(p) == [kind |-> "opt", sub |-> p]
NotAhead(t) == [kind |-> "nla", text |-> t]

WS == Run(SpaceChars, FALSE)
Word == Run(WordChars, FALSE)
CapWord == Run(WordChars, TRUE)
OptQuote == Opt(<<Lit("\"")>>)

NoMatch == [ok |-> FALSE, cap |-> "", index |-> 0]

\* t is the text the literals are compared with (lower-cased under the i
\* flag, as the pattern's literals then are), s the original text, from which
\* the capture is taken
LitAt(t, i, text) ==
    LET n == Len(text)
    IN /\ i + n - 1 <= Len(t)
       /\ SubSeq(t, i, i + n - 1) = text

RECURSIVE MatchSeq(_, _, _, _, _, _)
RECURSIVE TryLengths(_, _, _, _, _, _, _)
MatchSeq(pat, k, t, s, i, cap) ==
    IF k > Len(pat) THEN [ok |-> TRUE, cap |-> cap, index |-> i]
    ELSE LET e == pat[k]
         IN CASE e.kind = "lit" ->
                   IF LitAt(t, i, e.text)
                   THEN MatchSeq(pat, k + 1, t, s, i + Len(e.text), cap)
                   ELSE NoMatch
              [] e.kind = "run" ->
                   TryLengths(pat, k, t, s, i, RunEnd(t, i, e.cs), cap)
              [] e.kind = "opt" ->
                   LET taken == MatchSeq(e.sub \o SubSeq(pat, k + 1, Len(pat)),
                                         1, t, s, i, cap)
                   IN IF taken.ok THEN taken
                      ELSE MatchSeq(pat, k + 1, t, s, i, cap)
              [] e.kind = "nla" ->
                   IF LitAt(t, i, e.text) THEN NoMatch
                   ELSE MatchSeq(pat, k + 1, t, s, i, cap)

\* the run pat[k] takes the characters i..j-1, longest first, at least one
TryLengths(pat, k, t, s, i, j, cap) ==
    IF j <= i THEN NoMatch
    ELSE LET r == MatchSeq(pat, k + 1, t, s, j,
                           IF pat[k].capture THEN SubSeq(s, i, j - 1) ELSE cap)
         IN IF r.ok THEN r ELSE TryLengths(pat, k, t, s, i, j - 1, cap)

\* the i flag: the literals of the pattern in lower case
RECURSIVE LowerLits(_)
LowerLits(pat) ==
    [k \in 1..Len(pat) |->
        CASE pat[k].kind \in {"lit", "nla"} ->
               [pat[k] EXCEPT !.text = toLowerCase(@)]
          [] pat[k].kind = "opt" -> [pat[k] EXCEPT !.sub = LowerLits(@)]
          [] OTHER -> pat[k]]

\* new RegExp(source, "i") and new RegExp(source)
RegExpI(source, elems) ==
    [source |-> source, elems |-> LowerLits(elems), ignoreCase |-> TRUE]
RegExpCS(source, elems) ==
    [source |-> source, elems |-> elems, ignoreCase |-> FALSE]

\* the match of pattern at the leftmost position of s that has one; cap is
\* match[1]
Match(pattern, s) ==
    LET t == IF pattern.ignoreCase THEN toLowerCase(s) ELSE s
        at == {i \in 1..(Len(s) + 1) : MatchSeq(pattern.elems, 1, t, s, i, "").ok}
    IN IF at = {} THEN NoMatch
       ELSE LET i == CHOOSE i \in at : \A j \in at : i <= j
            IN [ok |-> TRUE, cap |-> MatchSeq(pattern.elems, 1, t, s, i, "").cap,
                index |-> i]

AlterTable == <<Lit("ALTER"), WS, Lit("TABLE"), WS, OptQuote, CapWord, OptQuote, WS>>

PatDropTable ==
    RegExpI("DROP\\s+TABLE\\s+(?:IF\\s+EXISTS\\s+)?\"?(\\w+)",
            <<Lit("DROP"), WS, Lit("TABLE"), WS,
              Opt(<<Lit("IF"), WS, Lit("EXISTS"), WS>>), OptQuote, CapWord>>)
PatDropColumn ==
    RegExpI("ALTER\\s+TABLE\\s+\"?(\\w+)\"?\\s+DROP\\s+COLUMN",
            AlterTable \o <<Lit("DROP"), WS, Lit("COLUMN")>>)
PatAlterColumnType ==
    RegExpI("ALTER\\s+TABLE\\s+\"?(\\w+)\"?\\s+ALTER\\s+COLUMN\\s+\\w+\\s+(?:SET\\s+DATA\\s+)?TYPE",
            AlterTable \o <<Lit("ALTER"), WS, Lit("COLUMN"), WS, Word, WS,
                            Opt(<<Lit("SET"), WS, Lit("DATA"), WS>>), Lit("TYPE")>>)
PatAddColumn ==
    RegExpI("ALTER\\s+TABLE\\s+\"?(\\w+)\"?\\s+ADD\\s+COLUMN",
            AlterTable \o <<Lit("ADD"), WS, Lit("COLUMN")>>)
PatCreateIndexConcurrently ==
    RegExpI("CREATE\\s+INDEX\\s+CONCURRENTLY\\s+\\w+\\s+ON\\s+\"?(\\w+)",
            <<Lit("CREATE"), WS, Lit("INDEX"), WS, Lit("CONCURRENTLY"), WS,
              Word, WS, Lit("ON"), WS, OptQuote, CapWord>>)
PatCreateIndex ==
    RegExpI("CREATE\\s+(?:UNIQUE\\s+)?INDEX\\s+(?!CONCURRENTLY)\\w+\\s+ON\\s+\"?(\\w+)",
            <<Lit("CREATE"), WS, Opt(<<Lit("UNIQUE"), WS>>), Lit("INDEX"), WS,
              NotAhead("CONCURRENTLY"), Word, WS, Lit("ON"), WS, OptQuote, CapWord>>)
PatAddConstraint ==
    RegExpI("ALTER\\s+TABLE\\s+\"?(\\w+)\"?\\s+ADD\\s+CONSTRAINT",
            AlterTable \o <<Lit("ADD"), WS, Lit("CONSTRAINT")>>)
PatRename ==
    RegExpI("ALTER\\s+TABLE\\s+\"?(\\w+)\"?\\s+RENAME", AlterTable \o <<Lit("RENAME")>>)
\* the two tests of the ADD COLUMN rule
PatNotNull == RegExpI("NOT\\s+NULL", <<Lit("NOT"), WS, Lit("NULL")>>)
PatDefault == RegExpI("DEFAULT", <<Lit("DEFAULT")>>)

(***************************************************************************)
(* Inputs of the analyzer: the scripts and the metadata collections the    *)
(* requests are drawn from.                                                *)
(***************************************************************************)
\* the longest script of Scripts, in statements
MaxStmts == 2

\* statements that alter no schema
QueryStatements ==
    { "",
      " \n\t ",
      "SELECT * FROM users",
      "SELECT 'DROP TABLE users' AS note" }

Statements ==
    QueryStatements \cup
    { "DROP TABLE users",
      "ALTER TABLE orders DROP COLUMN legacy_flag",
      "ALTER TABLE events ALTER COLUMN payload TYPE jsonb",
      "ALTER TABLE users ADD COLUMN bio text",
      "ALTER TABLE users ADD COLUMN status int NOT NULL",
      "CREATE INDEX CONCURRENTLY idx_status ON orders (status)",
      "CREATE INDEX idx_email ON users (email)",
      "ALTER TABLE orders ADD CONSTRAINT fk_user FOREIGN KEY (user_id) REFERENCES users (id)",
      "ALTER TABLE users RENAME TO members" }

\* [ ... ].join(sep), as the test suite builds a script
RECURSIVE join(_, _)
join(ss, sep) ==
    IF ss = <<>> THEN ""
    ELSE IF Len(ss) = 1 THEN Head(ss)
    ELSE Head(ss) \o sep \o join(Tail(ss), sep)

\* the scripts of at most MaxStmts statements of a set, with or without a
\* terminator after the last one
ScriptsOf(statements) ==
    {join(ss, ";\n") \o end :
        ss \in UNION {[1..n -> statements] : n \in 0..MaxStmts}, end \in {"", ";"}}

Scripts == ScriptsOf(Statements)

\* the longest script of LongScripts, in statements
MaxLong == 4

\* one statement of each risk level: low, medium, high, critical
LevelStatements ==
    { "ALTER TABLE users ADD COLUMN bio text",
      "ALTER TABLE users RENAME TO members",
      "CREATE INDEX idx_email ON users (email)",
      "DROP TABLE users" }

\* the scripts of more than MaxStmts and at most MaxLong of these
LongScripts ==
    {join(ss, ";\n") : ss \in UNION {[1..n -> LevelStatements] : n \in (MaxStmts + 1)..MaxLong}}
QueryScripts == ScriptsOf(QueryStatements)

Meta(name, rowCount) == [name |-> name, rowCount |-> rowCount, sizeBytes |-> rowCount * 100]

TableMetas ==
    { <<>>,
      <<Meta("Users", 150), Meta("orders", 25)>>,
      <<Meta("users", 0), Meta("orders", 1000000), Meta("events", 10000000),
        Meta("user_defaults", 4321), Meta("USERS", 333)>> }

\* "DROP TABLE x;" for a table name x, written bare or as a quoted identifier
TableNames == {"users", "Users", "orders_2024", "IF", "t", "unknown"}
RowCounts == {0, 1, 150, 100000, 10000000}
Quoted(x) == "\"" \o x \o "\""
DropTableSql(x) == "DROP TABLE " \o x \o ";"
DropTableMetas(x) ==
    TableMetas \cup {<<Meta(n, rc)>> : n \in {x, toUpperCase(x)}, rc \in RowCounts}

\* ALTER TABLE ... ADD COLUMN: the keywords in either case, the table and the
\* column by name, and what follows the column's type
AddColumnHeads == {<<"ALTER TABLE ", " ADD COLUMN ">>, <<"alter  table ", "\n  add\tcolumn ">>}
AddColumnTables == {"users", "\"Orders\"", "user_defaults"}
AddColumnNames == {"status", "default_role"}
\* NOT NULL and no DEFAULT clause
NotNullNoDefault == {" NOT NULL", " not null", " NOT\n    NULL", " Not\tNull UNIQUE"}
\* a DEFAULT clause
WithDefault == {" NOT NULL DEFAULT 0", " DEFAULT 0 NOT NULL", " default 'n'\n not null", " DEFAULT 0"}
\* nullable, no DEFAULT clause
Nullable == {"", " NULL"}
AddColumnSql(head, tbl, col, q) == head[1] \o tbl \o head[2] \o col \o " int" \o q \o ";"
AddColumnScripts ==
    {AddColumnSql(head, tbl, col, q) :
        head \in AddColumnHeads, tbl \in AddColumnTables, col \in AddColumnNames,
        q \in NotNullNoDefault \cup WithDefault \cup Nullable}

\* CREATE [UNIQUE] INDEX [CONCURRENTLY] name ON table (column)
IndexHeads == {<<"CREATE ", "INDEX ", " ON ">>, <<"create\n ", "index  ", "\n on ">>}
IndexUnique == {"", "UNIQUE "}
IndexTables == {"users", "\"Orders\"", "events"}
CreateIndexSql(head, unique, concurrently, tbl) ==
    head[1] \o unique \o head[2] \o concurrently \o "idx_email" \o head[3] \o tbl
    \o " (email);"

Request(sql, tableMeta) == [sql |-> sql, tableMeta |-> tableMeta]

\* statements analysed more than once: one of each rule whose duration grows
\* with the rows, one of fixed duration, one that no rule recognizes
RepeatStatements ==
    { "ALTER TABLE orders DROP COLUMN legacy_flag",
      "ALTER TABLE events ALTER COLUMN payload TYPE jsonb",
      "ALTER TABLE users ADD COLUMN status int NOT NULL",
      "CREATE INDEX CONCURRENTLY idx_status ON \"Orders\" (status)",
      "CREATE UNIQUE INDEX idx_email ON users (email)",
      "alter table Orders add constraint fk_user foreign key (user_id) references users (id)",
      "DROP TABLE users",
      "SELECT * FROM users" }

\* scripts of one or two of them
RepeatScripts ==
    RepeatStatements \cup {a \o ";\n" \o b \o ";" : a, b \in RepeatStatements}

\* metadata collections: those of TableMetas, tables of no rows under names in
\* another case, and a collection that describes none of the tables
RepeatMetas ==
    TableMetas \cup
    { <<Meta("USERS", 0), Meta("Orders", 0), Meta("EVENTS", 0)>>,
      <<Meta("accounts", 7)>> }

\* what runs before or between the two analyses of one request
OtherScripts ==
    { "DROP TABLE orders; ALTER TABLE users DROP COLUMN legacy_flag;",
      "ALTER TABLE users ADD COLUMN bio text" }

\* statements in which the patterns of two rules match: a comment names
\* another operation
OverlapStatements ==
    { "ALTER TABLE users RENAME TO users_old /* DROP TABLE users_old after the release */",
      "-- ALTER TABLE users RENAME legacy TO old\nALTER TABLE users DROP COLUMN legacy",
      "CREATE INDEX idx_a ON users (a) /* was: CREATE INDEX CONCURRENTLY idx_a ON events (a) */" }

\* each of them alone, and after a query and before another statement
OverlapScripts ==
    OverlapStatements \cup
    {"SELECT * FROM users;\n" \o st \o ";\nALTER TABLE users ADD COLUMN bio text;" :
        st \in OverlapStatements}

DropTableScripts == {DropTableSql(x) : x \in TableNames \cup {Quoted(n) : n \in TableNames}}

IndexScripts ==
    {CreateIndexSql(head, u, c, tbl) :
        head \in IndexHeads, u \in IndexUnique, c \in {"", "CONCURRENTLY "},
        tbl \in IndexTables}

(***************************************************************************)
(* The analyzer: src/src/analyzer.ts.                                      *)
(***************************************************************************)
\* the statements of the requests, and the suggestions: the texts on which
\* the patterns are matched once and the result kept
RangeOf(f) == {f[k] : k \in DOMAIN f}
MemoTexts ==
    {trim(st) : st \in Statements} \cup
    UNION {RangeOf(SplitStatements(sql)) :
             sql \in DropTableScripts \cup AddColumnScripts \cup IndexScripts
                     \cup RepeatStatements \cup OtherScripts \cup OverlapStatements}

AllPatterns ==
    {PatDropTable, PatDropColumn, PatAlterColumnType, PatAddColumn,
     PatCreateIndexConcurrently, PatCreateIndex, PatAddConstraint, PatRename,
     PatNotNull, PatDefault}

ExecMemo ==
    [s \in MemoTexts |-> [src \in {p.source : p \in AllPatterns} |->
        Match(CHOOSE p \in AllPatterns : p.source = src, s)]]

\* RegExp.prototype.exec
exec(pattern, s) ==
    IF s \in DOMAIN ExecMemo /\ pattern \in AllPatterns
    THEN ExecMemo[s][pattern.source]
    ELSE Match(pattern, s)

\* RegExp.prototype.test
test(pattern, s) == exec(pattern, s).ok

\* units of duration per millisecond: durations are kept in hundredths of a ms
UnitsPerMs == 100
\* const R = 0.01 (ms per row), in those units
R == 1

SCORES == [low |-> 10, medium |-> 40, high |-> 70, critical |-> 100]

DEFAULT_META == [name |-> "unknown", rowCount |-> 100000, sizeBytes |-> 10000000]

mk(operation, riskLevel, lockType, estimatedDurationMs, dataLoss, suggestion) ==
    [operation |-> operation, riskLevel |-> riskLevel, lockType |-> lockType,
     estimatedDurationMs |-> estimatedDurationMs, dataLoss |-> dataLoss,
     suggestion |-> suggestion]

\* the patterns of RULES, in table order
RULES ==
    <<PatDropTable, PatDropColumn, PatAlterColumnType, PatAddColumn,
      PatCreateIndexConcurrently, PatCreateIndex, PatAddConstraint, PatRename>>

\* the assess function of ADD COLUMN
AssessAddColumn(m, sql) ==
    IF test(PatNotNull, sql) /\ ~test(PatDefault, sql)
    THEN mk("ADD COLUMN (NOT NULL, no default)", "high", "ACCESS EXCLUSIVE",
            m.rowCount * R * 2, FALSE,
            "Add DEFAULT value or use nullable + backfill + set NOT NULL strategy.")
    ELSE mk("ADD COLUMN", "low", "ACCESS EXCLUSIVE (brief)", 10 * UnitsPerMs, FALSE,
            "Safe in PostgreSQL 11+. Fast metadata-only operation.")

\* DROP TABLE given a duration that grows with the table, as DROP COLUMN has
AssessDropTableScaled(m) ==
    mk("DROP TABLE", "critical", "ACCESS EXCLUSIVE", m.rowCount * R, TRUE,
       "Ensure full backup. Consider renaming to _deprecated instead.")

\* the assess function of DROP TABLE
AssessDropTable(m) ==
    mk("DROP TABLE", "critical", "ACCESS EXCLUSIVE", 50 * UnitsPerMs, TRUE,
       "Ensure full backup. Consider renaming to _deprecated instead.")

\* RULES[k].assess(m, sql)
assess(k, m, sql) ==
    CASE k = 1 -> AssessDropTable(m)
      [] k = 2 -> mk("DROP COLUMN", "high", "ACCESS EXCLUSIVE", m.rowCount * R, TRUE,
                     "Column data will be permanently lost. Add deprecation period first.")
      [] k = 3 -> mk("ALTER COLUMN TYPE", "high", "ACCESS EXCLUSIVE", m.rowCount * R * 2, FALSE,
                     "Full table rewrite required. Schedule during maintenance window.")
      [] k = 4 -> AssessAddColumn(m, sql)
      [] k = 5 -> mk("CREATE INDEX CONCURRENTLY", "low", "SHARE UPDATE EXCLUSIVE",
                     m.rowCount * R * 3, FALSE,
                     "Good practice. Monitor for long-running transactions that may block.")
      [] k = 6 -> mk("CREATE INDEX", "high", "SHARE", m.rowCount * R * 3, FALSE,
                     "Use CREATE INDEX CONCURRENTLY to avoid blocking writes.")
      [] k = 7 -> mk("ADD CONSTRAINT", "medium", "ACCESS EXCLUSIVE", m.rowCount * R, FALSE,
                     "For FK constraints, use NOT VALID then VALIDATE CONSTRAINT separately.")
      [] k = 8 -> mk("RENAME", "medium", "ACCESS EXCLUSIVE (brief)", 10 * UnitsPerMs, FALSE,
                     "Update all application queries referencing the old name.")

\* one map for all calls, to which each call adds its records
MetaMapKept(tableMeta) ==
    LET key(i) == toLowerCase(tableMeta[i].name)
    IN [n \in {key(i) : i \in 1..Len(tableMeta)} |->
          tableMeta[CHOOSE i \in 1..Len(tableMeta) :
                      /\ key(i) = n
                      /\ \A j \in 1..Len(tableMeta) : key(j) = n => j <= i]]
       @@ metaMap

\* new Map(tableMeta.map((t) => [t.name.toLowerCase(), t])): a later record
\* replaces an earlier one of the same key
MetaMapOf(tableMeta) ==
    LET key(i) == toLowerCase(tableMeta[i].name)
    IN [n \in {key(i) : i \in 1..Len(tableMeta)} |->
          tableMeta[CHOOSE i \in 1..Len(tableMeta) :
                      /\ key(i) = n
                      /\ \A j \in 1..Len(tableMeta) : key(j) = n => j <= i]]

\* the map looked up under the table name as written, in its own case
MetaForExactCase(mm, table) ==
    IF table \in DOMAIN mm THEN mm[table]
    ELSE [DEFAULT_META EXCEPT !.name = table]

\* metaMap.get(table.toLowerCase()) || { ...DEFAULT_META, name: table }
MetaFor(mm, table) ==
    IF toLowerCase(table) \in DOMAIN mm THEN mm[toLowerCase(table)]
    ELSE [DEFAULT_META EXCEPT !.name = table]

\* the index of the last rule, from k on, whose pattern matches stmt; 0 if none
FirstRuleFromEnd(stmt, k) ==
    LET matching == {j \in k..Len(RULES) : exec(RULES[j], stmt).ok}
    IN IF matching = {} THEN 0
       ELSE CHOOSE j \in matching : \A i \in matching : i <= j

\* the index of the first rule, from k on, whose pattern matches stmt; 0 if none
RECURSIVE FirstRule(_, _)
FirstRule(stmt, k) ==
    IF k > Len(RULES) THEN 0
    ELSE IF exec(RULES[k], stmt).ok THEN k
    ELSE FirstRule(stmt, k + 1)

\* the body of the loop over stmts: the items one statement pushes
ItemsOf(stmt, mm) ==
    LET k == FirstRule(stmt, 1)
    IN IF k = 0 THEN <<>>
       ELSE LET match == exec(RULES[k], stmt)
                table == IF match.cap = "" THEN "unknown" ELSE match.cap
                meta == MetaFor(mm, table)
            IN <<assess(k, meta, stmt) @@ [table |-> table]>>

\* Math.round of the non-negative quotient n / d: halves round up
MathRound(n, d) == (2 * n + d) \div (2 * d)

\* operations.reduce((s, o) => s + o.estimatedDurationMs, 0)
RECURSIVE SumDurations(_)
SumDurations(ops) ==
    IF ops = <<>> THEN 0 ELSE Head(ops).estimatedDurationMs + SumDurations(Tail(ops))

\* operations.reduce((s, o) => s + SCORES[o.riskLevel], 0)
RECURSIVE SumScores(_)
SumScores(ops) ==
    IF ops = <<>> THEN 0 ELSE SCORES[Head(ops).riskLevel] + SumScores(Tail(ops))

\* the reduce with its comparison turned round
RECURSIVE ReduceRiskReversed(_, _)
ReduceRiskReversed(ops, max) ==
    IF ops = <<>> THEN max
    ELSE ReduceRiskReversed(Tail(ops),
                            IF SCORES[Head(ops).riskLevel] < SCORES[max]
                            THEN Head(ops).riskLevel ELSE max)

\* operations.reduce((max, op) => SCORES[op.riskLevel] > SCORES[max] ? op.riskLevel : max, "low")
RECURSIVE ReduceRisk(_, _)
ReduceRisk(ops, max) ==
    IF ops = <<>> THEN max
    ELSE ReduceRisk(Tail(ops),
                    IF SCORES[Head(ops).riskLevel] > SCORES[max]
                    THEN Head(ops).riskLevel ELSE max)

OverallRisk(ops) == ReduceRisk(ops, "low")

\* Math.floor in the place of Math.round
TotalEstimatedDurationFloor(ops) == SumDurations(ops) \div UnitsPerMs

\* Math.round(operations.reduce((s, o) => s + o.estimatedDurationMs, 0)), in ms
TotalEstimatedDurationMs(ops) ==
    MathRound(SumDurations(ops), UnitsPerMs)

\* Math.floor in the place of Math.round
ScoreFloor(ops) == IF Len(ops) = 0 THEN 0 ELSE SumScores(ops) \div Len(ops)

\* operations.length === 0 ? 0 : Math.round(sum of SCORES / operations.length)
Score(ops) ==
    IF Len(ops) = 0 THEN 0 ELSE MathRound(SumScores(ops), Len(ops))

ReportOf(ops) ==
    [operations |-> ops, overallRisk |-> OverallRisk(ops),
     totalEstimatedDurationMs |-> TotalEstimatedDurationMs(ops), score |-> Score(ops)]

\* index.ts: a request reaches analyze; analyze lines 76-78
Call ==
    /\ pc = "idle"
    /\ queue # <<>>
    /\ metaMap' = MetaMapOf(Head(queue).tableMeta)
    /\ stmts' = SplitStatements(Head(queue).sql)
    /\ operations' = <<>>
    /\ served' = Append(served, Head(queue))
    /\ queue' = Tail(queue)
    /\ pc' = "loop"
    /\ UNCHANGED <<responses, exitCodes, scorerVars>>

\* analyze lines 80-90: one iteration of the loop over stmts
Step ==
    /\ pc = "loop"
    /\ stmts # <<>>
    /\ operations' = operations \o ItemsOf(Head(stmts), metaMap)
    /\ stmts' = Tail(stmts)
    /\ UNCHANGED <<queue, responses, served, pc, metaMap, exitCodes, scorerVars>>

\* the CLI exits 0 on every risk level, whatever the report
ExitCodeAlwaysZero(overallRisk) == 0

\* index.ts line 54: the argument of process.exit
ExitCode(overallRisk) ==
    IF overallRisk = "critical" THEN 2 ELSE IF overallRisk = "high" THEN 1 ELSE 0

\* analyze lines 92-97, and the report handed back to the caller: the HTTP
\* handler sends it, the CLI prints it and exits with its exit code
Return ==
    /\ pc = "loop"
    /\ stmts = <<>>
    /\ responses' = Append(responses, ReportOf(operations))
    /\ exitCodes' = Append(exitCodes, ExitCode(ReportOf(operations).overallRisk))
    /\ pc' = "idle"
    /\ UNCHANGED <<queue, served, metaMap, stmts, operations, scorerVars>>

Next == Call \/ Step \/ Return

(***************************************************************************)
(* The multi-factor scorer: src/unnamed/part_000.  An optional field of a  *)
(* TypeScript object is a field the record may lack.                       *)
(***************************************************************************)
\* the weights, in hundredths
WEIGHTS == [tableSize |-> 25, lockRisk |-> 30, cascadeRisk |-> 20, dataLoss |-> 25]

\* obj.field, undefined read as dflt
Field(obj, field, dflt) == IF field \in DOMAIN obj THEN obj[field] ELSE dflt

Factor(name, score) == [name |-> name, score |-> score]

\* the table-size score with the steps of 15 and 35 exchanged
scoreTableSizeSwapped(rowCount) ==
    Factor("Table Size Impact",
           IF rowCount <= 0 THEN 0
           ELSE IF rowCount < 10000 THEN 5
           ELSE IF rowCount < 100000 THEN 35
           ELSE IF rowCount < 1000000 THEN 15
           ELSE IF rowCount < 10000000 THEN 65
           ELSE IF rowCount < 100000000 THEN 85
           ELSE 100)

scoreTableSize(rowCount) ==
    Factor("Table Size Impact",
           IF rowCount <= 0 THEN 0
           ELSE IF rowCount < 10000 THEN 5
           ELSE IF rowCount < 100000 THEN 15
           ELSE IF rowCount < 1000000 THEN 35
           ELSE IF rowCount < 10000000 THEN 65
           ELSE IF rowCount < 100000000 THEN 85
           ELSE 100)

scoreLockRisk(migration) ==
    LET op == toUpperCase(migration.operation)
        details == Field(migration, "details", <<>>)
        flag(f) == Field(details, f, FALSE)
    IN Factor("Lock Risk",
              IF op = "ALTER COLUMN TYPE" \/ flag("columnTypeChange") THEN 90
              ELSE IF op = "CREATE INDEX" \/ op = "ADD INDEX"
                   THEN (IF flag("isConcurrent") THEN 15 ELSE 80)
              ELSE IF op = "TRUNCATE" THEN 75
              ELSE IF op = "DROP TABLE" THEN 70
              ELSE IF op = "DROP COLUMN" THEN 70
              ELSE IF op = "ADD COLUMN"
                   THEN (IF ~flag("isNullable") /\ ~flag("hasDefault") THEN 60 ELSE 10)
              ELSE 20)

scoreCascadeRisk(metadata) ==
    LET fkCount == Field(metadata, "foreignKeyCount", 0)
                   + Field(metadata, "referencedByCount", 0)
    IN Factor("Cascade Risk",
              IF fkCount = 0 THEN 0
              ELSE IF fkCount <= 2 THEN 20
              ELSE IF fkCount <= 4 THEN 50
              ELSE IF fkCount <= 9 THEN 80
              ELSE 100)

scoreDataLoss(migration) ==
    LET op == toUpperCase(migration.operation)
    IN Factor("Data Loss Risk",
              IF op = "DROP TABLE" THEN 100
              ELSE IF op = "TRUNCATE" THEN 90
              ELSE IF op = "DROP COLUMN" THEN 80
              ELSE 0)

\* the risk level with the boundary scores 25, 50 and 75 put one level up
determineRiskLevelStrict(score) ==
    IF score < 25 THEN "low"
    ELSE IF score < 50 THEN "medium"
    ELSE IF score < 75 THEN "high"
    ELSE "critical"

determineRiskLevel(score) ==
    IF score <= 25 THEN "low"
    ELSE IF score <= 50 THEN "medium"
    ELSE IF score <= 75 THEN "high"
    ELSE "critical"

\* the weighted sum of the four factor scores truncated, not rounded
OverallScoreTruncated(factors) ==
    (WEIGHTS.tableSize * factors[1].score + WEIGHTS.lockRisk * factors[2].score
     + WEIGHTS.cascadeRisk * factors[3].score + WEIGHTS.dataLoss * factors[4].score)
    \div 100

\* Math.round of the weighted sum of the four factor scores
OverallScore(factors) ==
    MathRound(WEIGHTS.tableSize * factors[1].score + WEIGHTS.lockRisk * factors[2].score
              + WEIGHTS.cascadeRisk * factors[3].score + WEIGHTS.dataLoss * factors[4].score,
              100)

calculateRiskScore(migration, metadata) ==
    LET factors == <<scoreTableSize(metadata.rowCount), scoreLockRisk(migration),
                     scoreCascadeRisk(metadata), scoreDataLoss(migration)>>
        overallScore == OverallScore(factors)
    IN [overallScore |-> overallScore, riskLevel |-> determineRiskLevel(overallScore),
        factors |-> factors]

\* one call of calculateRiskScore, on the next input
CalculateRiskScore ==
    /\ scoreQueue # <<>>
    /\ riskReports' = Append(riskReports,
                             calculateRiskScore(Head(scoreQueue).migration,
                                                Head(scoreQueue).metadata))
    /\ scored' = Append(scored, Head(scoreQueue))
    /\ scoreQueue' = Tail(scoreQueue)
    /\ UNCHANGED analyzerVars

NextScorer == CalculateRiskScore

(***************************************************************************)
(* Inputs of the scorer.                                                   *)
(***************************************************************************)
\* the largest foreign-key count
MaxFk == 10

Operations ==
    {"DROP TABLE", "drop table", "DROP COLUMN", "ADD COLUMN", "ALTER COLUMN TYPE",
     "CREATE INDEX", "ADD INDEX", "TRUNCATE", "RENAME"}

\* migration.details, when present
DetailsSet ==
    { <<>>,
      [isNullable |-> TRUE],
      [isNullable |-> TRUE, hasDefault |-> TRUE],
      [isNullable |-> FALSE, hasDefault |-> FALSE],
      [isNullable |-> FALSE, hasDefault |-> TRUE],
      [isNullable |-> TRUE, columnTypeChange |-> TRUE],
      [columnTypeChange |-> TRUE],
      [isConcurrent |-> TRUE],
      [isConcurrent |-> FALSE] }

Migration(op) == [sql |-> op \o " ...", operation |-> op, table |-> "users"]

Migrations ==
    {Migration(op) : op \in Operations}
    \cup {Migration(op) @@ [details |-> d] : op \in Operations, d \in DetailsSet}

\* row counts on both sides of every threshold of scoreTableSize
ScorerRowCounts ==
    {0, 1, 500, 9999, 10000, 99999, 100000, 999999, 1000000, 5000000, 9999999,
     10000000, 99999999, 100000000}

TableMetadata(rowCount) == [name |-> "users", rowCount |-> rowCount, sizeBytes |-> 0]

WithFk(md, fk) == IF fk < 0 THEN md ELSE md @@ [foreignKeyCount |-> fk]
WithRefBy(md, rb) == IF rb < 0 THEN md ELSE md @@ [referencedByCount |-> rb]

\* every row count, foreignKeyCount absent (-1) or 0..MaxFk, referencedByCount
\* absent (-1) or a few values
Metadatas ==
    {WithRefBy(WithFk(TableMetadata(rc), fk), rb) :
        rc \in ScorerRowCounts, fk \in -1..MaxFk, rb \in {-1, 0, 3}}

ScoreInput(migration, metadata) == [migration |-> migration, metadata |-> metadata]

\* the migrations scored twice, on a table and then on the table grown
GrownMigrations ==
    {Migration(op) : op \in Operations \ {"drop table"}}
    \cup {Migration("ADD COLUMN") @@ [details |-> [isNullable |-> TRUE]],
          Migration("CREATE INDEX") @@ [details |-> [isConcurrent |-> TRUE]]}

AnalyzerIdle ==
    /\ responses = <<>>
    /\ served = <<>>
    /\ pc = "idle"
    /\ metaMap = <<>>
    /\ stmts = <<>>
    /\ operations = <<>>
    /\ exitCodes = <<>>

ScorerIdle ==
    /\ scoreQueue = <<>>
    /\ scored = <<>>
    /\ riskReports = <<>>

\* what the serving loop is given: one request, or, for the two forms of an
\* index creation, the concurrent form and then the form without CONCURRENTLY
Init ==
    /\ \/ \E sql \in Scripts \cup LongScripts \cup AddColumnScripts \cup OverlapScripts,
              tm \in TableMetas :
            queue = <<Request(sql, tm)>>
       \/ \E n \in TableNames, x \in TableNames \cup {Quoted(y) : y \in TableNames} :
            /\ x \in {n, Quoted(n)}
            /\ \E tm \in DropTableMetas(n) : queue = <<Request(DropTableSql(x), tm)>>
       \/ \E head \in IndexHeads, u \in IndexUnique, tbl \in IndexTables, tm \in TableMetas :
            queue = <<Request(CreateIndexSql(head, u, "CONCURRENTLY ", tbl), tm),
                      Request(CreateIndexSql(head, u, "", tbl), tm)>>
    /\ AnalyzerIdle
    /\ ScorerIdle

Spec == Init /\ [][Next]_vars

\* the serving loop is given one request twice, and another request before,
\* between or after the two: the same script with other metadata, or another
\* script
InitRepeat ==
    /\ \E sql \in RepeatScripts, tm \in RepeatMetas :
         \E other \in {Request(sql, tm2) : tm2 \in RepeatMetas \ {tm}}
                       \cup {Request(o, tm2) : o \in OtherScripts, tm2 \in RepeatMetas} :
            LET r == Request(sql, tm)
            IN queue \in {<<r, r>>, <<other, r, r>>, <<r, other, r>>, <<r, r, other>>}
    /\ AnalyzerIdle
    /\ ScorerIdle

SpecRepeat == InitRepeat /\ [][Next]_vars

InitScorer ==
    /\ queue = <<>>
    /\ AnalyzerIdle
    /\ \/ \E m \in Migrations, md \in Metadatas : scoreQueue = <<ScoreInput(m, md)>>
       \* the same migration on a table and then on the table grown in rows
       \/ \E m \in GrownMigrations, rb \in {-1, 2}, fk \in -1..MaxFk,
              a \in ScorerRowCounts, b \in ScorerRowCounts :
            /\ a <= b
            /\ scoreQueue =
                 <<ScoreInput(m, WithRefBy(WithFk(TableMetadata(a), fk), rb)),
                   ScoreInput(m, WithRefBy(WithFk(TableMetadata(b), fk), rb))>>
       \* ... and on the table grown in foreign keys
       \/ \E m \in GrownMigrations, rb \in {-1, 2}, rc \in ScorerRowCounts,
              f \in 0..MaxFk, g \in 0..MaxFk :
            /\ f <= g
            /\ scoreQueue =
                 <<ScoreInput(m, WithRefBy(WithFk(TableMetadata(rc), f), rb)),
                   ScoreInput(m, WithRefBy(WithFk(TableMetadata(rc), g), rb))>>
    /\ scored = <<>>
    /\ riskReports = <<>>

SpecScorer == InitScorer /\ [][NextScorer]_vars

(***************************************************************************)
(* Properties of the analyzer, checked under Spec.                         *)
(***************************************************************************)
\* the order low < medium < high < critical
Rank(level) ==
    CASE level = "low" -> 1 [] level = "medium" -> 2
      [] level = "high" -> 3 [] level = "critical" -> 4

\* the weight of a risk level in the score
Weight(level) ==
    CASE level = "low" -> 10 [] level = "medium" -> 40
      [] level = "high" -> 70 [] level = "critical" -> 100

RECURSIVE SumOfDurations(_, _)
SumOfDurations(ops, k) ==
    IF k = 0 THEN 0 ELSE ops[k].estimatedDurationMs + SumOfDurations(ops, k - 1)

RECURSIVE SumOfWeights(_, _)
SumOfWeights(ops, k) ==
    IF k = 0 THEN 0 ELSE Weight(ops[k].riskLevel) + SumOfWeights(ops, k - 1)

Answered == 1..Len(responses)

\* C1: the overallRisk of every report is the greatest riskLevel of its items
\* in the order low < medium < high < critical, and "low" when it has none.
C1_OverallRiskIsMax ==
    \A i \in Answered :
        LET ops == responses[i].operations
            overall == responses[i].overallRisk
        IN IF ops = <<>> THEN overall = "low"
           ELSE /\ \E k \in 1..Len(ops) : ops[k].riskLevel = overall
                /\ \A k \in 1..Len(ops) : Rank(ops[k].riskLevel) <= Rank(overall)

\* a report of several items whose greatest level is neither its last item's
\* nor "low"
C1_Witness ==
    \E i \in Answered :
        LET ops == responses[i].operations
        IN /\ Len(ops) >= 2
           /\ ops[1].riskLevel = "critical"
           /\ ops[Len(ops)].riskLevel = "medium"
           /\ responses[i].overallRisk = "critical"

\* the script of request i has several statements
MultiStatement(i) == Len(SplitStatements(served[i].sql)) >= 2

\* C2, as claimed: for a script of several statements,
\* totalEstimatedDurationMs is the sum of the items' estimatedDurationMs.
C2_TotalIsSum ==
    \A i \in Answered :
        MultiStatement(i) =>
            responses[i].totalEstimatedDurationMs * UnitsPerMs
                = SumOfDurations(responses[i].operations, Len(responses[i].operations))

\* C2, amended: for a script of several statements, totalEstimatedDurationMs
\* is that sum rounded to the nearest whole millisecond, a half rounding up.
C2_TotalIsRoundedSum ==
    \A i \in Answered :
        LET ops == responses[i].operations
            sum == SumOfDurations(ops, Len(ops))
            total == responses[i].totalEstimatedDurationMs
        IN MultiStatement(i) =>
             /\ total * UnitsPerMs - UnitsPerMs \div 2 <= sum
             /\ sum < total * UnitsPerMs + UnitsPerMs \div 2

\* a script of several statements whose durations do not add up to a whole
\* number of milliseconds
C2_Witness ==
    \E i \in Answered :
        LET ops == responses[i].operations
        IN /\ MultiStatement(i)
           /\ Len(ops) >= 2
           /\ SumOfDurations(ops, Len(ops)) % UnitsPerMs >= UnitsPerMs \div 2

\* C3: the score is the mean of the items' weights (low 10, medium 40, high
\* 70, critical 100) rounded to the nearest integer, 0 when there are no
\* items, and within 0..100.
C3_ScoreIsRoundedMean ==
    \A i \in Answered :
        LET ops == responses[i].operations
            n == Len(ops)
            score == responses[i].score
        IN /\ score \in 0..100
           /\ n = 0 => score = 0
           /\ n > 0 => /\ 2 * n * score - n <= 2 * SumOfWeights(ops, n)
                       /\ 2 * SumOfWeights(ops, n) < 2 * n * score + n

\* a report whose mean weight is not a whole number
C3_Witness ==
    \E i \in Answered :
        LET ops == responses[i].operations
        IN /\ Len(ops) > 0
           /\ SumOfWeights(ops, Len(ops)) % Len(ops) # 0

\* the report of a script in which analyze recognized nothing
EmptyReport(report) ==
    /\ report.operations = <<>>
    /\ report.overallRisk = "low"
    /\ report.score = 0
    /\ report.totalEstimatedDurationMs = 0

\* C4, as claimed: a script of queries only (whatever text the queries
\* contain), an empty script and a script of white space yield a report with
\* no items, overallRisk "low", score 0 and total duration 0.
C4_QueriesYieldEmptyReport ==
    \A i \in Answered : served[i].sql \in QueryScripts => EmptyReport(responses[i])

\* the metadata collection tm describes the table named n, under any case
Describes(tm, n) == \E k \in 1..Len(tm) : toLowerCase(tm[k].name) = toLowerCase(n)

\* C5: "DROP TABLE x;", x a table name written bare or quoted, yields exactly
\* one item, whatever the metadata: operation DROP TABLE, critical, data loss,
\* lock ACCESS EXCLUSIVE, the fixed duration of 50 ms; the report is critical
\* with score 100.
C5_DropTable ==
    \A i \in Answered : \A n \in TableNames :
        served[i].sql \in {DropTableSql(n), DropTableSql(Quoted(n))} =>
            LET ops == responses[i].operations
            IN /\ Len(ops) = 1
               /\ ops[1].operation = "DROP TABLE"
               /\ ops[1].riskLevel = "critical"
               /\ ops[1].dataLoss = TRUE
               /\ ops[1].lockType = "ACCESS EXCLUSIVE"
               /\ ops[1].estimatedDurationMs = 50 * UnitsPerMs
               /\ responses[i].overallRisk = "critical"
               /\ responses[i].score = 100

\* DROP TABLE of a table the metadata describes, with a row count that is not
\* the default one
C5_Witness ==
    \E i \in Answered : \E n \in TableNames :
        /\ served[i].sql = DropTableSql(Quoted(n))
        /\ Describes(served[i].tableMeta, n)
        /\ \A k \in 1..Len(served[i].tableMeta) : served[i].tableMeta[k].rowCount = 10000000
        /\ Len(responses[i].operations) = 1

\* the table name inside an identifier written bare or quoted
Unquoted(tbl) == IF Ch(tbl, 1) = "\"" THEN SubSeq(tbl, 2, Len(tbl) - 1) ELSE tbl

\* the suggestion mentions DEFAULT
MentionsDefault(suggestion) == Match(RegExpCS("DEFAULT", <<Lit("DEFAULT")>>), suggestion).ok

\* the row count the metadata of request i gives for table tbl
RowCountOf(i, tbl) == MetaFor(MetaMapOf(served[i].tableMeta), Unquoted(tbl)).rowCount

\* C6, as claimed: an ALTER TABLE ... ADD COLUMN statement whose column is NOT
\* NULL and has no DEFAULT clause yields an item of level high, lock ACCESS
\* EXCLUSIVE, duration rowCount x R x 2, no data loss and a suggestion that
\* mentions DEFAULT; one whose column is nullable or has a DEFAULT yields an
\* item of level low, a brief exclusive lock, the fixed duration of 10 ms and
\* no data loss.
C6_AddColumn ==
    \A i \in Answered :
      \A head \in AddColumnHeads, tbl \in AddColumnTables, col \in AddColumnNames,
         q \in NotNullNoDefault \cup WithDefault \cup Nullable :
        served[i].sql = AddColumnSql(head, tbl, col, q) =>
            LET ops == responses[i].operations
            IN /\ Len(ops) = 1
               /\ ops[1].dataLoss = FALSE
               /\ IF q \in NotNullNoDefault
                  THEN /\ ops[1].riskLevel = "high"
                       /\ ops[1].lockType = "ACCESS EXCLUSIVE"
                       /\ ops[1].estimatedDurationMs = RowCountOf(i, tbl) * R * 2
                       /\ MentionsDefault(ops[1].suggestion)
                  ELSE /\ ops[1].riskLevel = "low"
                       /\ ops[1].lockType = "ACCESS EXCLUSIVE (brief)"
                       /\ ops[1].estimatedDurationMs = 10 * UnitsPerMs

\* C7, as claimed: CREATE [UNIQUE] INDEX CONCURRENTLY yields one item, low
\* with lock SHARE UPDATE EXCLUSIVE, the same statement without CONCURRENTLY
\* on the same metadata one item, high with lock SHARE and the same duration;
\* the statement with CONCURRENTLY is not assessed by the rule of CREATE INDEX.
C7_ConcurrentlyLowersRisk ==
    \A head \in IndexHeads, u \in IndexUnique, tbl \in IndexTables :
        (/\ Len(responses) = 2
         /\ served[1].sql = CreateIndexSql(head, u, "CONCURRENTLY ", tbl)
         /\ served[2].sql = CreateIndexSql(head, u, "", tbl)
         /\ served[1].tableMeta = served[2].tableMeta) =>
            LET conc == responses[1].operations
                plain == responses[2].operations
            IN /\ Len(conc) = 1 /\ Len(plain) = 1
               /\ conc[1].riskLevel = "low" /\ plain[1].riskLevel = "high"
               /\ Rank(conc[1].riskLevel) < Rank(plain[1].riskLevel)
               /\ conc[1].lockType = "SHARE UPDATE EXCLUSIVE" /\ plain[1].lockType = "SHARE"
               /\ conc[1].lockType # plain[1].lockType
               /\ conc[1].estimatedDurationMs = plain[1].estimatedDurationMs
               /\ conc[1].operation # "CREATE INDEX"

(***************************************************************************)
(* Properties of the multi-factor scorer, checked under SpecScorer.        *)
(***************************************************************************)
Scored == 1..Len(riskReports)

FactorNames == <<"Table Size Impact", "Lock Risk", "Cascade Risk", "Data Loss Risk">>

\* 100 times the weighted sum 0.25 size + 0.30 lock + 0.20 cascade + 0.25 data loss
WeightedSum100(f) == 25 * f[1].score + 30 * f[2].score + 20 * f[3].score + 25 * f[4].score

\* C8: every result of calculateRiskScore has exactly four factors, named Table
\* Size Impact, Lock Risk, Cascade Risk and Data Loss Risk in this order, each
\* with a score in 0..100; overallScore is the integer nearest to
\* 0.25 size + 0.30 lock + 0.20 cascade + 0.25 data loss (a half rounds up),
\* and lies in 0..100.
C8_WeightedOverallScore ==
    \A i \in Scored :
        LET r == riskReports[i]
            f == r.factors
        IN /\ Len(f) = 4
           /\ \A k \in 1..4 : f[k].name = FactorNames[k] /\ f[k].score \in 0..100
           /\ 100 * r.overallScore - 50 <= WeightedSum100(f)
           /\ WeightedSum100(f) < 100 * r.overallScore + 50
           /\ r.overallScore \in 0..100

\* a result whose weighted sum is not a whole number and was rounded up
C8_Witness ==
    \E i \in Scored :
        /\ WeightedSum100(riskReports[i].factors) % 100 >= 50
        /\ 100 * riskReports[i].overallScore > WeightedSum100(riskReports[i].factors)

ForeignKeysOf(md) == Field(md, "foreignKeyCount", 0)
ReferencedByOf(md) == Field(md, "referencedByCount", 0)

\* the second input is the first one with the table grown: the same migration,
\* the same referenced-by count, no fewer rows and no fewer foreign keys
Grown ==
    /\ Len(riskReports) = 2
    /\ scored[1].migration = scored[2].migration
    /\ ReferencedByOf(scored[1].metadata) = ReferencedByOf(scored[2].metadata)
    /\ scored[1].metadata.rowCount <= scored[2].metadata.rowCount
    /\ ForeignKeysOf(scored[1].metadata) <= ForeignKeysOf(scored[2].metadata)

\* C9: when the same migration is scored on a table and on the table grown in
\* rows or in foreign keys (referenced-by count unchanged), the table-size
\* score, the cascade score and overallScore of the grown table are not less
\* than those of the table before.
C9_Monotone ==
    Grown =>
        /\ riskReports[1].factors[1].score <= riskReports[2].factors[1].score
        /\ riskReports[1].factors[3].score <= riskReports[2].factors[3].score
        /\ riskReports[1].overallScore <= riskReports[2].overallScore

\* a table grown in rows whose table-size score and overallScore rose
C9_Witness ==
    /\ Grown
    /\ scored[1].metadata.rowCount < scored[2].metadata.rowCount
    /\ riskReports[1].factors[1].score < riskReports[2].factors[1].score
    /\ riskReports[1].overallScore < riskReports[2].overallScore

\* riskLevel follows from overallScore by the thresholds 25, 50 and 75
LevelByThresholds(r) ==
    /\ r.riskLevel = "low" <=> r.overallScore <= 25
    /\ r.riskLevel = "medium" <=> r.overallScore \in 26..50
    /\ r.riskLevel = "high" <=> r.overallScore \in 51..75
    /\ r.riskLevel = "critical" <=> r.overallScore >= 76

OperationOf(inp) == toUpperCase(inp.migration.operation)
DetailOf(inp, flag) == Field(Field(inp.migration, "details", <<>>), flag, FALSE)

\* DROP TABLE on a table of 10,000,000 rows with 5 foreign keys
BigDropTable(inp) ==
    /\ OperationOf(inp) = "DROP TABLE"
    /\ inp.metadata.rowCount = 10000000
    /\ ForeignKeysOf(inp.metadata) = 5

\* a nullable ADD COLUMN on an empty or small table (fewer than 10,000 rows)
\* without foreign keys
SmallNullableAddColumn(inp) ==
    /\ OperationOf(inp) = "ADD COLUMN"
    /\ DetailOf(inp, "isNullable")
    /\ inp.metadata.rowCount < 10000
    /\ ForeignKeysOf(inp.metadata) + ReferencedByOf(inp.metadata) = 0

SomeHighOrCritical(report) ==
    \E k \in 1..Len(report.operations) :
        report.operations[k].riskLevel \in {"high", "critical"}

\* C12: the CLI exits with 0 when the report's overallRisk is low or medium,
\* with 1 when it is high and with 2 when it is critical; the exit code is
\* non-zero exactly when some item of the report is assessed high or critical.
C12_ExitCode ==
    /\ Len(exitCodes) = Len(responses)
    /\ \A i \in Answered :
          /\ responses[i].overallRisk \in {"low", "medium"} => exitCodes[i] = 0
          /\ responses[i].overallRisk = "high" => exitCodes[i] = 1
          /\ responses[i].overallRisk = "critical" => exitCodes[i] = 2
          /\ exitCodes[i] # 0 <=> SomeHighOrCritical(responses[i])

\* a script of a medium and a high statement, on which the CLI exits with 1
C12_Witness ==
    \E i \in Answered :
        /\ exitCodes[i] = 1
        /\ \E k \in 1..Len(responses[i].operations) :
              responses[i].operations[k].riskLevel = "medium"

\* the rules whose pattern matches the statement st
MatchingRules(st) == {k \in 1..Len(RULES) : test(RULES[k], st)}

\* the pieces of the script between semicolons, trimmed
Pieces(sql) == LET parts == split(sql, ";") IN [k \in 1..Len(parts) |-> trim(parts[k])]

\* the non-empty pieces that match at least one rule, in input order
RecognizedOf(sql) ==
    LET Recognized(st) == st # "" /\ MatchingRules(st) # {}
    IN SelectSeq(Pieces(sql), Recognized)

\* the item the rule k makes of the statement st under the metadata tm
ItemOfRule(k, st, tm) ==
    LET match == exec(RULES[k], st)
        table == IF match.cap = "" THEN "unknown" ELSE match.cap
    IN assess(k, MetaFor(MetaMapOf(tm), table), st) @@ [table |-> table]

\* C13: the items of a report are, in input order, one for each statement of
\* the script that matches at least one rule; the item of a statement is the
\* one made by the first rule, in table order, whose pattern matches it; a
\* statement that matches no rule has no item; the number of items is at most
\* the number of non-empty statements.
C13_OneItemPerRecognizedStatement ==
    \A i \in Answered :
        LET ops == responses[i].operations
            rec == RecognizedOf(served[i].sql)
            nonEmpty == {k \in 1..Len(Pieces(served[i].sql)) : Pieces(served[i].sql)[k] # ""}
        IN /\ Len(ops) = Len(rec)
           /\ \A j \in 1..Len(rec) :
                 LET first == CHOOSE k \in MatchingRules(rec[j]) :
                                \A m \in MatchingRules(rec[j]) : k <= m
                 IN ops[j] = ItemOfRule(first, rec[j], served[i].tableMeta)
           /\ Len(ops) <= Cardinality(nonEmpty)

\* a script with a statement that no rule matches, a statement that two rules
\* match and a third statement, answered with two items
C13_Witness ==
    \E i \in Answered :
        LET rec == RecognizedOf(served[i].sql)
        IN /\ Len(rec) = 2
           /\ Len(SplitStatements(served[i].sql)) = 3
           /\ Cardinality(MatchingRules(rec[1])) = 2
           /\ Len(responses[i].operations) = 2

(***************************************************************************)
(* Properties of repeated analyses, checked under SpecRepeat.              *)
(***************************************************************************)
\* C11: two requests with identical script text and identical metadata get
\* identical reports, whatever was analysed before or between them.
C11_SameInputSameReport ==
    \A i, j \in Answered :
        served[i] = served[j] => responses[i] = responses[j]

\* a request answered twice with a row-dependent item, and between the two a
\* request whose metadata gave the same table another row count
C11_Witness ==
    /\ Len(responses) = 3
    /\ served[1] = served[3]
    /\ served[2] # served[1]
    /\ \E k \in 1..Len(responses[1].operations) :
          \E m \in 1..Len(responses[2].operations) :
             /\ responses[1].operations[k].table = responses[2].operations[m].table
             /\ responses[1].operations[k].operation = responses[2].operations[m].operation
             /\ responses[1].operations[k].estimatedDurationMs
                  # responses[2].operations[m].estimatedDurationMs

\* how many times R the duration of an operation takes per row; 0 for the
\* operations of fixed duration
PerRow(operation) ==
    CASE operation \in {"DROP COLUMN", "ADD CONSTRAINT"} -> 1
      [] operation \in {"ALTER COLUMN TYPE", "ADD COLUMN (NOT NULL, no default)"} -> 2
      [] operation \in {"CREATE INDEX CONCURRENTLY", "CREATE INDEX"} -> 3
      [] OTHER -> 0

\* the records of tm whose name is the table name, letter case ignored
RecordsOf(tm, table) ==
    {k \in 1..Len(tm) : toLowerCase(tm[k].name) = toLowerCase(table)}

\* the row count the duration is computed from: that of the record of the
\* table (the last one, should there be several), 100,000 without a record
RowsFor(tm, table) ==
    IF RecordsOf(tm, table) = {} THEN 100000
    ELSE tm[CHOOSE k \in RecordsOf(tm, table) : \A m \in RecordsOf(tm, table) : m <= k].rowCount

\* C14: an item whose duration scales with rows has the duration
\* 0.01 ms x rows x the factor of its operation, where rows is the row count of
\* the metadata record named as the item's table, letter case ignored (0 rows
\* included), and 100,000 when there is no such record; two analyses of one
\* script under different metadata give items that agree in operation, table,
\* risk level, lock type and data-loss flag.
C14_MetadataOnlySetsDuration ==
    /\ \A i \in Answered :
          \A k \in 1..Len(responses[i].operations) :
             LET op == responses[i].operations[k]
             IN PerRow(op.operation) > 0 =>
                  100 * op.estimatedDurationMs
                    = UnitsPerMs * RowsFor(served[i].tableMeta, op.table) * PerRow(op.operation)
    /\ \A i, j \in Answered :
          served[i].sql = served[j].sql =>
             /\ Len(responses[i].operations) = Len(responses[j].operations)
             /\ \A k \in 1..Len(responses[i].operations) :
                   LET a == responses[i].operations[k]
                       b == responses[j].operations[k]
                   IN /\ a.operation = b.operation
                      /\ a.table = b.table
                      /\ a.riskLevel = b.riskLevel
                      /\ a.lockType = b.lockType
                      /\ a.dataLoss = b.dataLoss

\* one script analysed under metadata that names its table in another case
\* with 0 rows, and under metadata without a record of the table: the item
\* lasts 0 ms in the first report and as for 100,000 rows in the second
C14_Witness ==
    \E i, j \in Answered :
        /\ served[i].sql = served[j].sql
        /\ \E k \in 1..Len(responses[i].operations) :
              LET a == responses[i].operations[k]
                  b == responses[j].operations[k]
                  rec == RecordsOf(served[i].tableMeta, a.table)
              IN /\ PerRow(a.operation) > 0
                 /\ rec # {}
                 /\ \A m \in rec : served[i].tableMeta[m].name # a.table
                 /\ a.estimatedDurationMs = 0
                 /\ RecordsOf(served[j].tableMeta, b.table) = {}
                 /\ b.estimatedDurationMs = 1000 * UnitsPerMs * PerRow(b.operation)

====
